---- MODULE Spec2Model ----
(***************************************************************************)
(* semgrep/target_manager.py: TargetManager, the resolution of targets     *)
(* into the files to analyse for a language.                               *)
(*                                                                         *)
(* A Python str is a sequence of one-character strings, a pathlib.Path the *)
(* sequence of its parts (Path(".") is the empty sequence, an absolute     *)
(* path starts with the part Root).                                        *)
(***************************************************************************)
EXTENDS Integers, Sequences, FiniteSets, TLC

VARIABLES
    fs,          \* the file system: path -> "none" | "file" | "dir"
    nfs,         \* file system changes since the manager was constructed
    threads,     \* the threads that call into the manager
    targets,     \* self._targets
    includes,    \* self._includes
    excludes,    \* self._excludes
    gitonly,     \* self._visible_to_git_only
    cached,      \* the keys of self._filtered_targets
    cache,       \* self._filtered_targets[lang], for lang in cached
    nwrites,     \* assignments made to self._filtered_targets[lang]
    pc,          \* per thread: where it is in filtered_files / get_files
    api,         \* per thread: the method called
    lang,        \* per thread: argument lang
    linc,        \* per thread: get_files' argument includes
    lexc,        \* per thread: get_files' argument excludes
    hit,         \* per thread: the call found lang in the cache
    explicit,    \* per thread: filtered_files' local explicit_files
    todo,        \* per thread: directories expand_targets has yet to visit
    expanded,    \* per thread: expand_targets' local expanded
    result,      \* per thread: what filtered_files returned
    ret,         \* per thread: what the called method returned
    err,         \* per thread: the exception the call raised
    fsops,       \* per thread: file system and git accesses of the call
    qfail,       \* per thread: the failure a git query of the call reported
    arr,         \* filter harness: the set of paths given to the filters
    globs,       \* filter harness: the pattern list given to the filters
    outInc,      \* filter harness: filter_includes(arr, globs)
    outExc,      \* filter harness: filter_excludes(arr, globs)
    fpc          \* filter harness: "in" before the filters ran, "out" after

mgrVars == <<fs, nfs, threads, targets, includes, excludes, gitonly, cached,
             cache, nwrites, pc, api, lang, linc, lexc, hit, explicit, todo,
             expanded, result, ret, err, fsops, qfail>>
fltVars == <<arr, globs, outInc, outExc, fpc>>
vars == <<mgrVars, fltVars>>

Range(s) == {s[i] : i \in 1..Len(s)}

(***************************************************************************)
(* Strings.                                                                *)
(***************************************************************************)
RECURSIVE Split(_, _)
\* str.split(sep) for a one-character sep
Split(s, sep) ==
    IF \A i \in 1..Len(s) : s[i] # sep THEN <<s>>
    ELSE LET k == CHOOSE i \in 1..Len(s) :
                     s[i] = sep /\ \A j \in 1..(i - 1) : s[j] # sep
         IN  <<SubSeq(s, 1, k - 1)>> \o Split(SubSeq(s, k + 1, Len(s)), sep)

IsSpace(c) == c \in {" ", "\n", "\t"}

RECURSIVE Strip(_)
\* str.strip()
Strip(s) ==
    IF s = <<>> THEN s
    ELSE IF IsSpace(s[1]) THEN Strip(Tail(s))
    ELSE IF IsSpace(s[Len(s)]) THEN Strip(SubSeq(s, 1, Len(s) - 1))
    ELSE s

RECURSIVE Join(_, _)
\* sep.join(parts)
Join(parts, sep) ==
    IF parts = <<>> THEN <<>>
    ELSE IF Len(parts) = 1 THEN parts[1]
    ELSE parts[1] \o <<sep>> \o Join(Tail(parts), sep)

RECURSIVE FnMatch(_, _)
\* fnmatch.fnmatchcase(name, pat) for patterns made of literals, ? and *
FnMatch(name, pat) ==
    IF pat = <<>> THEN name = <<>>
    ELSE IF pat[1] = "*"
         THEN \E k \in 0..Len(name) :
                  FnMatch(SubSeq(name, k + 1, Len(name)), Tail(pat))
    ELSE /\ name # <<>>
         /\ pat[1] = "?" \/ pat[1] = name[1]
         /\ FnMatch(Tail(name), Tail(pat))

(***************************************************************************)
(* pathlib.                                                                *)
(***************************************************************************)
Root == <<"/">>

RECURSIVE DropDots(_)
DropDots(parts) ==
    IF parts = <<>> THEN <<>>
    ELSE IF parts[1] = <<>> \/ parts[1] = <<".">> THEN DropDots(Tail(parts))
    ELSE <<parts[1]>> \o DropDots(Tail(parts))

\* Path(s): the parts of the string s
ParseParts(s) ==
    LET rel == DropDots(Split(s, "/"))
    IN  IF s # <<>> /\ s[1] = "/" THEN <<Root>> \o rel ELSE rel

IsAbsolute(p) == p # <<>> /\ p[1] = Root

\* a / b
JoinPath(a, b) == IF IsAbsolute(b) THEN b ELSE a \o b

\* str(p)
PathStr(p) ==
    IF p = <<>> THEN <<".">>
    ELSE IF IsAbsolute(p) THEN <<"/">> \o Join(Tail(p), "/")
    ELSE Join(p, "/")

\* p.parents, nearest first
Parents(p) ==
    LET low == IF IsAbsolute(p) THEN 1 ELSE 0
    IN  [i \in 1..(Len(p) - low) |-> SubSeq(p, 1, Len(p) - i)]

\* p.match(glob): the pattern's parts against the path's last parts
PathMatch(p, glob) ==
    LET pat == ParseParts(glob)
        n   == Len(p)
        m   == Len(pat)
    IN  IF IsAbsolute(pat)
        THEN /\ IsAbsolute(p)
             /\ m = n
             /\ \A i \in 2..m : FnMatch(p[i], pat[i])
        ELSE /\ m <= n
             /\ \A i \in 1..m : FnMatch(p[n - m + i], pat[i])

(***************************************************************************)
(* The filters.                                                            *)
(***************************************************************************)
match_glob_self_only(path, gs) ==
    \E g \in Range(gs) : PathMatch(path, g)

match_glob(path, gs) ==
    LET subpaths == <<path>> \o Parents(path)
    IN  \E p \in Range(subpaths) : \E g \in Range(gs) : PathMatch(p, g)

filter_includes_no_guard(a, incs) ==
    {elem \in a : match_glob(elem, incs)}

filter_includes(a, incs) ==
    IF incs = <<>> THEN a
    ELSE {elem \in a : match_glob(elem, incs)}

filter_excludes(a, excs) ==
    {elem \in a : ~match_glob(elem, excs)}

(***************************************************************************)
(* The filter harness: filter_includes and filter_excludes applied to a    *)
(* set of paths and a pattern list drawn from the sets below.              *)
(***************************************************************************)
s_tests   == <<"t", "e", "s", "t", "s">>
s_src     == <<"s", "r", "c">>
s_project == <<"p", "r", "o", "j", "e", "c", "t">>
s_abs     == <<"a", "b", "s">>
s_foo_py  == <<"f", "o", "o", ".", "p", "y">>
s_main_go == <<"m", "a", "i", "n", ".", "g", "o">>
s_nope_py == <<"n", "o", "p", "e", ".", "p", "y">>
s_a_py    == <<"a", ".", "p", "y">>
s_b_pyi   == <<"b", ".", "p", "y", "i">>
s_c_txt   == <<"c", ".", "t", "x", "t">>
s_t_py    == <<"t", ".", "p", "y">>
s_x_go    == <<"x", ".", "g", "o">>

g_tests   == s_tests
g_src     == s_src
g_star_py == <<"*", ".", "p", "y">>
g_star_go == <<"*", ".", "g", "o">>
g_src_star_py == s_src \o <<"/", "*", ".", "p", "y">>
g_one     == <<"?">>

FilterPaths ==
    { <<s_project, s_tests, s_foo_py>>,
      <<s_project, s_src, s_foo_py>>,
      <<s_src, s_a_py>>,
      <<s_main_go>>,
      <<Root, s_abs, s_x_go>> }

FilterGlobs == {g_tests, g_star_py, g_star_go, g_src_star_py, g_one}

MaxGlobs == 2

GlobLists == UNION {[1..n -> FilterGlobs] : n \in 0..MaxGlobs}

FilterOff ==
    /\ arr = {}
    /\ globs = <<>>
    /\ outInc = {}
    /\ outExc = {}
    /\ fpc = "off"

FilterInit ==
    /\ arr \in SUBSET FilterPaths
    /\ globs \in GlobLists
    /\ outInc = {}
    /\ outExc = {}
    /\ fpc = "in"

ApplyFilters ==
    /\ fpc = "in"
    /\ outInc' = filter_includes(arr, globs)
    /\ outExc' = filter_excludes(arr, globs)
    /\ fpc' = "out"
    /\ UNCHANGED <<arr, globs, mgrVars>>

(***************************************************************************)
(* lang_to_exts.                                                           *)
(***************************************************************************)
e_py   == <<"p", "y">>
e_pyi  == <<"p", "y", "i">>
e_js   == <<"j", "s">>
e_java == <<"j", "a", "v", "a">>
e_c    == <<"c">>
e_go   == <<"g", "o">>
e_mli  == <<"m", "l", "i">>
e_ml   == <<"m", "l">>
e_mly  == <<"m", "l", "y">>
e_mll  == <<"m", "l", "l">>

\* known = FALSE stands for raise UnknownLanguageError
lang_to_exts(language) ==
    IF language \in {"python", "python2", "python3", "py"}
    THEN [known |-> TRUE, exts |-> <<e_py, e_pyi>>]
    ELSE IF language \in {"js", "javascript"}
    THEN [known |-> TRUE, exts |-> <<e_js>>]
    ELSE IF language \in {"java"}
    THEN [known |-> TRUE, exts |-> <<e_java>>]
    ELSE IF language \in {"c"}
    THEN [known |-> TRUE, exts |-> <<e_c>>]
    ELSE IF language \in {"go", "golang"}
    THEN [known |-> TRUE, exts |-> <<e_go>>]
    ELSE IF language \in {"ml", "ocaml"}
    THEN [known |-> TRUE, exts |-> <<e_mli, e_ml, e_mly, e_mll>>]
    ELSE [known |-> FALSE, exts |-> <<>>]

(***************************************************************************)
(* The file system, find and git.                                          *)
(***************************************************************************)
p_main_go == <<s_main_go>>
p_nope_py == <<s_nope_py>>
p_src     == <<s_src>>
p_a_py    == <<s_src, s_a_py>>
p_b_pyi   == <<s_src, s_b_pyi>>
p_c_txt   == <<s_src, s_c_txt>>
p_x_go    == <<s_src, s_x_go>>
p_tests   == <<s_src, s_tests>>
p_t_py    == <<s_src, s_tests, s_t_py>>

Nodes == {p_main_go, p_nope_py, p_src, p_a_py, p_b_pyi, p_c_txt, p_x_go,
          p_tests, p_t_py}

\* the working directory when the manager is constructed
InitFs ==
    [n \in Nodes |->
        IF n \in {p_src, p_tests} THEN "dir"
        ELSE IF n = p_nope_py THEN "none"
        ELSE "file"]

\* the paths the environment creates and removes while the manager lives
Mutable == {p_nope_py, p_src}

\* what git knows of the working tree: the rest of the files are tracked
GitUntracked == {p_t_py, p_x_go}
GitIgnored   == {p_b_pyi}

IsPrefix(d, p) == Len(d) < Len(p) /\ SubSeq(p, 1, Len(d)) = d

\* os.stat of a path, as Path.exists and Path.is_dir read it
Kind(f, p) ==
    IF p = <<>> THEN "dir"
    ELSE IF p \in Nodes THEN f[p]
    ELSE "none"

exists(f, p) == Kind(f, p) # "none"
is_dir(f, p) == Kind(f, p) = "dir"

RECURSIVE Lines(_)
\* the lines of a listing, each ended by a newline, in the tool's order
Lines(ss) ==
    IF ss = {} THEN <<>>
    ELSE LET x == CHOOSE y \in ss : TRUE
         IN  x \o <<"\n">> \o Lines(ss \ {x})

NamePattern(ext) == <<"*", ".">> \o ext

\* the regular files below curr_dir whose name matches *.ext
FilesBelow(f, curr_dir, ext) ==
    {n \in Nodes : /\ f[n] = "file"
                   /\ IsPrefix(curr_dir, n)
                   /\ FnMatch(n[Len(n)], NamePattern(ext))}

\* stdout of: find curr_dir -type f -name *.ext
FindOutput(f, curr_dir, ext) ==
    Lines({PathStr(n) : n \in FilesBelow(f, curr_dir, ext)})

RelStr(curr_dir, n) == Join(SubSeq(n, Len(curr_dir) + 1, Len(n)), "/")

\* stdout of: git ls-files *.ext, run in curr_dir
GitTrackedOutput(f, curr_dir, ext) ==
    Lines({RelStr(curr_dir, n) :
              n \in FilesBelow(f, curr_dir, ext) \ (GitUntracked \cup GitIgnored)})

\* stdout of: git ls-files --other --exclude-standard *.ext, run in curr_dir
GitUntrackedOutput(f, curr_dir, ext) ==
    Lines({RelStr(curr_dir, n) :
              n \in FilesBelow(f, curr_dir, ext) \cap GitUntracked})

(***************************************************************************)
(* TargetManager's static methods.                                         *)
(***************************************************************************)
resolve_targets(ts) ==
    {JoinPath(<<>>, ParseParts(ts[i])) : i \in 1..Len(ts)}

_parse_output(output, curr_dir) ==
    IF output = <<>> THEN {}
    ELSE {JoinPath(curr_dir, ParseParts(elem)) :
             elem \in Range(Split(Strip(output), "\n"))}

\* The queries of one _expand_dir call are numbered 1, 2, ...: two for each
\* extension (tracked, then untracked).  failAt is the query that fails
\* (0: none does), kind how: "nonzero" is a nonzero exit status, "missing" a
\* git executable that cannot be run.
\*   status: "ok" | "UnknownLanguageError" | "NotGitProjectError" |
\*           "FileNotFoundError"
\*   files:  expanded, as far as the loop got
_expand_dir(f, curr_dir, language, git, failAt, kind) ==
    LET le   == lang_to_exts(language)
        exts == le.exts
        last == IF git /\ failAt > 0 THEN (failAt + 1) \div 2 - 1 ELSE Len(exts)
        one(ext) ==
            IF git
            THEN _parse_output(GitTrackedOutput(f, curr_dir, ext), curr_dir)
                 \cup _parse_output(GitUntrackedOutput(f, curr_dir, ext), curr_dir)
            ELSE _parse_output(FindOutput(f, curr_dir, ext), <<>>)
        files == UNION {one(exts[i]) : i \in 1..last}
    IN  IF ~le.known
        THEN [status |-> "UnknownLanguageError", files |-> {}, queries |-> 0,
              qfail |-> "none"]
        ELSE IF git /\ failAt > 0
        THEN [status |-> IF kind = "nonzero" THEN "NotGitProjectError"
                         ELSE "FileNotFoundError",
              files |-> files, queries |-> failAt, qfail |-> kind]
        ELSE [status |-> "ok", files |-> files,
              queries |-> IF git THEN 2 * Len(exts) ELSE Len(exts),
              qfail |-> "none"]

\* semgrep.util.partition_set(pred, ss), with pred given as the set sat of
\* the elements that satisfy it: those elements of ss, and the rest
partition_set(sat, ss) ==
    <<ss \cap sat, ss \ sat>>

(***************************************************************************)
(* The manager and its callers.                                            *)
(***************************************************************************)
Threads == {"T1", "T2"}

MaxFsChanges == 2

t_main_go == s_main_go
t_nope_py == s_nope_py
t_src     == s_src
t_dot_src == <<".", "/">> \o s_src
t_tests   == s_src \o <<"/">> \o s_tests

TargetLists ==
    { <<>>,
      <<t_main_go>>,
      <<t_nope_py>>,
      <<t_dot_src, t_src, t_main_go>>,
      <<t_src, t_tests, t_nope_py>> }

GlobalIncludes == {<<>>, <<g_tests>>}
GlobalExcludes == {<<>>, <<g_star_go>>, <<g_tests>>}

CallLangs     == {"python", "go", "ruby"}
LocalIncludes == {<<>>, <<g_src>>}
LocalExcludes == {<<>>, <<g_star_go>>}

Idle(t) == pc[t] \in {"idle", "done", "error"}

\* TargetManager.__init__, and the callers not yet in a call
Construct(ths, tls, incs, excs, gits) ==
    /\ fs = InitFs
    /\ nfs = 0
    /\ threads = ths
    /\ targets \in tls
    /\ includes \in incs
    /\ excludes \in excs
    /\ gitonly \in gits
    /\ cached = {}
    /\ cache = [l \in CallLangs |-> {}]
    /\ nwrites = [l \in CallLangs |-> 0]
    /\ pc = [t \in Threads |-> "idle"]
    /\ api = [t \in Threads |-> "none"]
    /\ lang = [t \in Threads |-> "none"]
    /\ linc = [t \in Threads |-> <<>>]
    /\ lexc = [t \in Threads |-> <<>>]
    /\ hit = [t \in Threads |-> FALSE]
    /\ explicit = [t \in Threads |-> {}]
    /\ todo = [t \in Threads |-> {}]
    /\ expanded = [t \in Threads |-> {}]
    /\ result = [t \in Threads |-> {}]
    /\ ret = [t \in Threads |-> {}]
    /\ err = [t \in Threads |-> "none"]
    /\ fsops = [t \in Threads |-> 0]
    /\ qfail = [t \in Threads |-> "none"]

\* get_files' line 223 or a direct call of filtered_files, up to the cache
\* lookup of lines 197-198; found is the outcome of the lookup
Lookup(t, a, l, inc, exc, found) ==
    /\ t \in threads
    /\ Idle(t)
    /\ api' = [api EXCEPT ![t] = a]
    /\ lang' = [lang EXCEPT ![t] = l]
    /\ linc' = [linc EXCEPT ![t] = inc]
    /\ lexc' = [lexc EXCEPT ![t] = exc]
    /\ explicit' = [explicit EXCEPT ![t] = {}]
    /\ todo' = [todo EXCEPT ![t] = {}]
    /\ expanded' = [expanded EXCEPT ![t] = {}]
    /\ err' = [err EXCEPT ![t] = "none"]
    /\ fsops' = [fsops EXCEPT ![t] = 0]
    /\ qfail' = [qfail EXCEPT ![t] = "none"]
    /\ ret' = [ret EXCEPT ![t] =
                  IF found /\ a = "filtered_files" THEN cache[l] ELSE {}]
    /\ IF found
       THEN /\ hit' = [hit EXCEPT ![t] = TRUE]
            /\ result' = [result EXCEPT ![t] = cache[l]]
            /\ pc' = [pc EXCEPT ![t] =
                         IF a = "get_files" THEN "local" ELSE "done"]
       ELSE /\ hit' = [hit EXCEPT ![t] = FALSE]
            /\ result' = [result EXCEPT ![t] = {}]
            /\ pc' = [pc EXCEPT ![t] = "partition"]
    /\ UNCHANGED <<fs, nfs, threads, targets, includes, excludes, gitonly,
                   cached, cache, nwrites, fltVars>>

\* a lookup that never finds the entry
filtered_files_lookup_no_cache(t, a, l, inc, exc) ==
    Lookup(t, a, l, inc, exc, FALSE)

\* a lookup that waits while another thread computes the entry of l
filtered_files_lookup_locked(t, a, l, inc, exc) ==
    /\ \A u \in threads \ {t} :
           ~(pc[u] \in {"partition", "expand"} /\ lang[u] = l)
    /\ Lookup(t, a, l, inc, exc, l \in cached)

filtered_files_lookup(t, a, l, inc, exc) ==
    Lookup(t, a, l, inc, exc, l \in cached)

CallFilteredFiles(t) ==
    \E l \in CallLangs : filtered_files_lookup(t, "filtered_files", l, <<>>, <<>>)

CallGetFiles(t) ==
    \E l \in CallLangs : \E inc \in LocalIncludes : \E exc \in LocalExcludes :
        filtered_files_lookup(t, "get_files", l, inc, exc)

\* lines 200-201
filtered_files_partition(t) ==
    /\ pc[t] = "partition"
    /\ LET resolved == resolve_targets(targets)
           not_dir  == {p \in resolved : ~is_dir(fs, p)}
           parts    == partition_set(not_dir, resolved)
       IN  /\ explicit' = [explicit EXCEPT ![t] = parts[1]]
           /\ todo' = [todo EXCEPT ![t] = parts[2]]
           /\ fsops' = [fsops EXCEPT ![t] = @ + Cardinality(resolved)]
    /\ pc' = [pc EXCEPT ![t] = "expand"]
    /\ UNCHANGED <<fs, nfs, threads, targets, includes, excludes, gitonly,
                   cached, cache, nwrites, api, lang, linc, lexc, hit,
                   expanded, result, ret, err, qfail, fltVars>>

\* an expansion that stores what it has when _expand_dir raises
expand_targets_step_keeps_partial(t, target, failAt, kind) ==
    /\ pc[t] = "expand"
    /\ target \in todo[t]
    /\ todo' = [todo EXCEPT ![t] = @ \ {target}]
    /\ IF ~exists(fs, target)
       THEN /\ fsops' = [fsops EXCEPT ![t] = @ + 1]
            /\ UNCHANGED <<expanded, err, pc, qfail, cache, cached>>
       ELSE IF is_dir(fs, target)
       THEN LET r == _expand_dir(fs, target, lang[t], gitonly, failAt, kind)
            IN  /\ fsops' = [fsops EXCEPT ![t] = @ + 2 + r.queries]
                /\ qfail' = [qfail EXCEPT ![t] = r.qfail]
                /\ IF r.status = "ok"
                   THEN /\ expanded' = [expanded EXCEPT ![t] = @ \cup r.files]
                        /\ UNCHANGED <<err, pc, cache, cached>>
                   ELSE /\ err' = [err EXCEPT ![t] = r.status]
                        /\ pc' = [pc EXCEPT ![t] = "error"]
                        /\ cache' = [cache EXCEPT ![lang[t]] =
                                        expanded[t] \cup r.files]
                        /\ cached' = cached \cup {lang[t]}
                        /\ UNCHANGED expanded
       ELSE /\ expanded' = [expanded EXCEPT ![t] = @ \cup {target}]
            /\ fsops' = [fsops EXCEPT ![t] = @ + 2]
            /\ UNCHANGED <<err, pc, qfail, cache, cached>>
    /\ UNCHANGED <<fs, nfs, threads, targets, includes, excludes, gitonly,
                   nwrites, api, lang, linc, lexc, hit, explicit, result,
                   ret, fltVars>>

\* one iteration of the loop of expand_targets (lines 151-160), on target
\* (a set is iterated in no particular order)
expand_targets_step(t, target, failAt, kind) ==
    /\ pc[t] = "expand"
    /\ target \in todo[t]
    /\ todo' = [todo EXCEPT ![t] = @ \ {target}]
    /\ IF ~exists(fs, target)
       THEN /\ fsops' = [fsops EXCEPT ![t] = @ + 1]
            /\ UNCHANGED <<expanded, err, pc, qfail>>
       ELSE IF is_dir(fs, target)
       THEN LET r == _expand_dir(fs, target, lang[t], gitonly, failAt, kind)
            IN  /\ fsops' = [fsops EXCEPT ![t] = @ + 2 + r.queries]
                /\ qfail' = [qfail EXCEPT ![t] = r.qfail]
                /\ IF r.status = "ok"
                   THEN /\ expanded' = [expanded EXCEPT ![t] = @ \cup r.files]
                        /\ UNCHANGED <<err, pc>>
                   ELSE /\ err' = [err EXCEPT ![t] = r.status]
                        /\ pc' = [pc EXCEPT ![t] = "error"]
                        /\ UNCHANGED expanded
       ELSE /\ expanded' = [expanded EXCEPT ![t] = @ \cup {target}]
            /\ fsops' = [fsops EXCEPT ![t] = @ + 2]
            /\ UNCHANGED <<err, pc, qfail>>
    /\ UNCHANGED <<fs, nfs, threads, targets, includes, excludes, gitonly,
                   cached, cache, nwrites, api, lang, linc, lexc, hit,
                   explicit, result, ret, fltVars>>

\* the git queries of _expand_dir that may fail: none unless it runs git
FailPoints(t, target) ==
    IF gitonly /\ is_dir(fs, target) /\ lang_to_exts(lang[t]).known
    THEN 0..(2 * Len(lang_to_exts(lang[t]).exts))
    ELSE {0}

FailKinds(failAt) ==
    IF failAt = 0 THEN {"none"} ELSE {"nonzero", "missing"}

ExpandTargets(t) ==
    \E target \in todo[t] : \E failAt \in FailPoints(t, target) :
        \E kind \in FailKinds(failAt) :
            expand_targets_step(t, target, failAt, kind)

\* the global filters applied to the explicit files as well
global_filtered_no_bypass(exp, explicit_files, incs, excs) ==
    filter_excludes(filter_includes(exp \cup explicit_files, incs), excs)

\* lines 203-206: the set stored for the language
global_filtered(exp, explicit_files, incs, excs) ==
    LET inc == filter_includes(exp, incs)
        exc == filter_excludes(inc, excs)
    IN  exc \cup explicit_files

\* lines 162 and 203-207: expand_targets returns, the global filters, the
\* union with the explicit files, the cache entry and the return (the locals
\* end with the call)
filtered_files_store(t) ==
    /\ pc[t] = "expand"
    /\ todo[t] = {}
    /\ LET res == global_filtered(expanded[t], explicit[t], includes, excludes)
       IN  /\ cache' = [cache EXCEPT ![lang[t]] = res]
           /\ result' = [result EXCEPT ![t] = res]
           /\ ret' = [ret EXCEPT ![t] =
                         IF api[t] = "filtered_files" THEN res ELSE {}]
    /\ cached' = cached \cup {lang[t]}
    /\ nwrites' = [nwrites EXCEPT ![lang[t]] = @ + 1]
    /\ explicit' = [explicit EXCEPT ![t] = {}]
    /\ expanded' = [expanded EXCEPT ![t] = {}]
    /\ pc' = [pc EXCEPT ![t] = IF api[t] = "get_files" THEN "local" ELSE "done"]
    /\ UNCHANGED <<fs, nfs, threads, targets, includes, excludes, gitonly,
                   api, lang, linc, lexc, hit, todo, err, fsops, qfail,
                   fltVars>>

\* a local filter that stores its result as the entry of the language
get_files_filter_caching(t) ==
    /\ pc[t] = "local"
    /\ LET inc == filter_includes(result[t], linc[t])
           exc == filter_excludes(inc, lexc[t])
       IN  /\ ret' = [ret EXCEPT ![t] = exc]
           /\ cache' = [cache EXCEPT ![lang[t]] = exc]
    /\ pc' = [pc EXCEPT ![t] = "done"]
    /\ UNCHANGED <<fs, nfs, threads, targets, includes, excludes, gitonly,
                   cached, nwrites, api, lang, linc, lexc, hit, explicit,
                   todo, expanded, result, err, fsops, qfail, fltVars>>

\* lines 224-226; the list returned is held as the set of its elements
get_files_filter(t) ==
    /\ pc[t] = "local"
    /\ LET inc == filter_includes(result[t], linc[t])
           exc == filter_excludes(inc, lexc[t])
       IN  ret' = [ret EXCEPT ![t] = exc]
    /\ pc' = [pc EXCEPT ![t] = "done"]
    /\ UNCHANGED <<fs, nfs, threads, targets, includes, excludes, gitonly,
                   cached, cache, nwrites, api, lang, linc, lexc, hit,
                   explicit, todo, expanded, result, err, fsops, qfail,
                   fltVars>>

(***************************************************************************)
(* The environment: files come and go while the manager lives.             *)
(***************************************************************************)
Parent(n) == SubSeq(n, 1, Len(n) - 1)

FsCreate(n) ==
    /\ nfs < MaxFsChanges
    /\ n \in Mutable
    /\ fs[n] = "none"
    /\ is_dir(fs, Parent(n))
    /\ fs' = [fs EXCEPT ![n] = "file"]
    /\ nfs' = nfs + 1
    /\ UNCHANGED <<threads, targets, includes, excludes, gitonly, cached,
                   cache, nwrites, pc, api, lang, linc, lexc, hit, explicit,
                   todo, expanded, result, ret, err, fsops, qfail, fltVars>>

FsRemove(n) ==
    /\ nfs < MaxFsChanges
    /\ n \in Mutable
    /\ fs[n] # "none"
    /\ fs' = [m \in Nodes |-> IF m = n \/ IsPrefix(n, m) THEN "none" ELSE fs[m]]
    /\ nfs' = nfs + 1
    /\ UNCHANGED <<threads, targets, includes, excludes, gitonly, cached,
                   cache, nwrites, pc, api, lang, linc, lexc, hit, explicit,
                   todo, expanded, result, ret, err, fsops, qfail, fltVars>>

Init ==
    /\ Construct({"T1"}, TargetLists, GlobalIncludes, GlobalExcludes, BOOLEAN)
    /\ FilterOff

InitConcurrent ==
    /\ Construct(Threads, {<<t_dot_src, t_src, t_main_go>>}, {<<>>},
                 {<<>>, <<g_tests>>}, BOOLEAN)
    /\ FilterOff

InitFilter ==
    /\ Construct({}, {<<>>}, {<<>>}, {<<>>}, {FALSE})
    /\ FilterInit

Next ==
    \/ \E t \in Threads : CallFilteredFiles(t)
    \/ \E t \in Threads : CallGetFiles(t)
    \/ \E t \in Threads : filtered_files_partition(t)
    \/ \E t \in Threads : ExpandTargets(t)
    \/ \E t \in Threads : filtered_files_store(t)
    \/ \E t \in Threads : get_files_filter(t)
    \/ \E n \in Mutable : FsCreate(n)
    \/ \E n \in Mutable : FsRemove(n)

\* the callers ask get_files for one and the same language
CallGetFilesSame(t) ==
    filtered_files_lookup(t, "get_files", "python", <<>>, <<>>)

NextConcurrent ==
    \/ \E t \in Threads : CallGetFilesSame(t)
    \/ \E t \in Threads : filtered_files_partition(t)
    \/ \E t \in Threads : ExpandTargets(t)
    \/ \E t \in Threads : filtered_files_store(t)
    \/ \E t \in Threads : get_files_filter(t)
    \/ \E n \in Mutable : FsCreate(n)
    \/ \E n \in Mutable : FsRemove(n)

NextFilter == ApplyFilters

\* one thread calls into the manager
Spec == Init /\ [][Next]_vars

\* two threads call into the same manager
SpecConcurrent == InitConcurrent /\ [][NextConcurrent]_vars

\* the filters on their own
SpecFilter == InitFilter /\ [][NextFilter]_vars

(***************************************************************************)
(* Properties.                                                             *)
(***************************************************************************)
Known(l) == lang_to_exts(l).known

Returned(t) == t \in threads /\ pc[t] = "done"

\* path or one of its ancestor directories matches a pattern of gs
AncestorOrSelfMatches(path, gs) ==
    \E k \in 1..Len(path) : \E g \in Range(gs) : PathMatch(SubSeq(path, 1, k), g)

\* the targets that are regular files
FileTargets == {p \in resolve_targets(targets) : Kind(fs, p) = "file"}

\* C1, as claimed: with the file system as it was at construction, a target
\* that is a file is in whatever filtered_files or get_files returns, whatever
\* the global and the local exclude patterns
C1_ExplicitFileInEveryResult ==
    \A t \in Threads :
        Returned(t) /\ nfs = 0 => FileTargets \subseteq ret[t]

\* C1, amended: a target that is a file is in the set filtered_files returns
\* whatever the global patterns (the set stored holds every target that was
\* no directory when it was computed); get_files then applies its local
\* filters to it as to any other path, so it is in the list exactly when the
\* local includes admit it and no local exclude matches it
C1_ExplicitFileBypassesGlobalFilters ==
    /\ [](\A t \in Threads :
            Returned(t) /\ nfs = 0 =>
                \A p \in FileTargets :
                    /\ api[t] = "filtered_files" => p \in ret[t]
                    /\ api[t] = "get_files" =>
                         (p \in ret[t] <=>
                            /\ linc[t] = <<>> \/ AncestorOrSelfMatches(p, linc[t])
                            /\ ~AncestorOrSelfMatches(p, lexc[t])))
    /\ [][\A t \in Threads :
            pc[t] = "expand" /\ pc'[t] \in {"local", "done"} =>
                explicit[t] \subseteq cache'[lang[t]]]_vars

\* main.go is named, the global excludes match it, and it is returned
C1_Witness ==
    \E t \in Threads :
        /\ Returned(t)
        /\ nfs = 0
        /\ excludes = <<g_star_go>>
        /\ p_main_go \in FileTargets
        /\ api[t] = "get_files"
        /\ lexc[t] = <<>>
        /\ p_main_go \in ret[t]

\* C2: once a language is in the cache its entry never changes; a call for it
\* is answered from the cache (it never reaches the partition), with the
\* cached set and without any file system or git access
C2_CacheIdempotent ==
    /\ [](\A t \in Threads :
            /\ pc[t] \in {"partition", "expand"} => lang[t] \notin cached
            /\ pc[t] \in {"local", "done"} /\ hit[t] =>
                  fsops[t] = 0 /\ result[t] = cache[lang[t]])
    /\ [][\A l \in cached : l \in cached' /\ cache'[l] = cache[l]]_vars

\* a call answered from the cache with a file that has since been removed
C2_Witness ==
    \E t \in Threads :
        /\ Returned(t)
        /\ hit[t]
        /\ api[t] = "filtered_files"
        /\ p_a_py \in ret[t]
        /\ fs[p_a_py] = "none"

\* C3, as claimed: a call for a language that is not in the alias table
\* ends in UnknownLanguageError, with no result, and before any access to
\* the file system or to git
C3_UnknownLanguageFatal ==
    \A t \in Threads :
        pc[t] \in {"done", "error"} /\ ~Known(lang[t]) =>
            /\ pc[t] = "error"
            /\ err[t] = "UnknownLanguageError"
            /\ fsops[t] = 0

\* C4, as claimed: a target that does not exist is not in the set that
\* filtered_files computes (the file system as it was at construction)
C4_NonexistentDropped ==
    \A t \in Threads :
        Returned(t) /\ ~hit[t] /\ nfs = 0 =>
            \A p \in resolve_targets(targets) : ~exists(fs, p) => p \notin ret[t]

\* C5, as claimed: whatever failure a git query reports, a nonzero exit
\* status or a git that cannot be run, the call fails with NotGitProjectError
C5_GitFailureIsNotGitProject ==
    \A t \in Threads :
        qfail[t] # "none" => pc[t] = "error" /\ err[t] = "NotGitProjectError"

\* C6: the step that raises leaves the cache as it was and returns nothing;
\* the language of a failed call is not in the cache, so the next call for it
\* starts the pipeline afresh
C6_FatalLeavesNoPartialResult ==
    /\ [](\A t \in Threads :
            pc[t] = "error" =>
                /\ err[t] \in {"UnknownLanguageError", "NotGitProjectError",
                              "FileNotFoundError"}
                /\ lang[t] \notin cached
                /\ ret[t] = {}
                /\ result[t] = {})
    /\ [][\A t \in Threads :
            /\ pc'[t] = "error" /\ pc[t] # "error" =>
                  cache' = cache /\ cached' = cached
            /\ pc[t] = "error" /\ pc'[t] # "error" /\ lang'[t] = lang[t] =>
                  /\ pc'[t] = "partition"
                  /\ explicit'[t] = {} /\ expanded'[t] = {} /\ todo'[t] = {}]_vars

\* git fails on the second directory, after the first was expanded, while
\* another language is cached
C6_Witness ==
    \E t \in Threads :
        /\ pc[t] = "error"
        /\ err[t] = "NotGitProjectError"
        /\ expanded[t] # {}
        /\ cached # {}
        /\ lang[t] \notin cached

\* C7: with an empty pattern list filter_includes and filter_excludes both
\* return the set they were given
C7_EmptyPatternsNoOp ==
    fpc = "out" /\ globs = <<>> => outInc = arr /\ outExc = arr

\* both filters ran on two paths or more with no pattern
C7_Witness ==
    fpc = "out" /\ globs = <<>> /\ Cardinality(arr) >= 2 /\ outInc = arr

\* C8: filter_excludes keeps exactly the paths of which neither the path
\* nor an ancestor directory matches a pattern
C8_ExcludeAncestorOrSelf ==
    fpc = "out" =>
        outExc = {p \in arr : ~AncestorOrSelfMatches(p, globs)}

\* project/tests/foo.py is removed by the pattern tests
C8_Witness ==
    /\ fpc = "out"
    /\ globs = <<g_tests>>
    /\ <<s_project, s_tests, s_foo_py>> \in arr
    /\ <<s_project, s_tests, s_foo_py>> \notin outExc
    /\ <<s_project, s_src, s_foo_py>> \in outExc

\* C9: get_files returns the cached set of the language filtered by the
\* local includes, then by the local excludes, and its filtering step leaves
\* the cache as it was
C9_LocalFilterOnCache ==
    /\ [](\A t \in Threads :
            Returned(t) /\ api[t] = "get_files" =>
                ret[t] = {p \in cache[lang[t]] :
                             /\ linc[t] = <<>> \/ AncestorOrSelfMatches(p, linc[t])
                             /\ ~AncestorOrSelfMatches(p, lexc[t])})
    /\ [][\A t \in Threads :
            pc[t] = "local" => cache' = cache /\ cached' = cached]_vars

\* a call whose local patterns remove some of the cached set, and the next
\* call, without local patterns, still gets it whole
C9_Witness ==
    \E t \in Threads :
        /\ Returned(t)
        /\ api[t] = "get_files"
        /\ hit[t]
        /\ linc[t] # <<>>
        /\ lexc[t] # <<>>
        /\ ret[t] # {}
        /\ ret[t] # cache[lang[t]]

\* C10: nothing keeps a second thread out while a first computes the entry
\* of a language: its lookup misses too and it starts the same computation
C10_NoMutualExclusion ==
    \A a \in threads : \A b \in threads \ {a} :
        /\ pc[a] \in {"partition", "expand"}
        /\ lang[a] \notin cached
        /\ pc[b] \in {"idle", "done", "error"}
        =>
            ENABLED (/\ filtered_files_lookup(b, "get_files", lang[a], <<>>, <<>>)
                     /\ pc'[b] = "partition")

\* both threads stored an entry for the language, and the second replaced
\* the set the first was given by another
C10_Witness ==
    \E t \in Threads :
        /\ nwrites["python"] = 2
        /\ pc[t] \in {"local", "done"}
        /\ ~hit[t]
        /\ result[t] # cache["python"]

====
